---- MODULE Spec2Model ----
(***************************************************************************)
(* Model of src/src/components/VideoRecorder.vue, the <script setup> block *)
(* of the second component (lines 349-652) together with the event         *)
(* bindings of its template (lines 314-347).                               *)
(*                                                                         *)
(* Every JavaScript function is an operator from a state record to a state *)
(* record, so that a function calling another one is the composition of    *)
(* the two operators.  An action applies one event handler to the current  *)
(* state.  The component is single threaded: a handler runs to completion  *)
(* (or to the exception it throws) before the next event is dispatched.    *)
(*                                                                         *)
(* The model starts after a successful onMounted (lines 436-468): the      *)
(* canvas, its 2d context and the live video element exist and the         *)
(* requestAnimationFrame loop of captureFrame is registered.               *)
(***************************************************************************)
EXTENDS Integers, Sequences, FiniteSets, TLC

\* ------------------------------------------------------------------ bounds
\* capacity of the frame buffer (the program uses 5 * FRAME_RATE = 300)
bufferSize == 3
\* frames the capture source delivers in one run
MaxFrames == 4
\* timers that may be pending at the same time
MaxTimers == 2
\* the pointer position is k / SeekDen of the window width, k in 0..SeekDen
SeekDen == 3

\* --------------------------------------------------------------- constants
FRAME_RATE == 60
\* the floor of the inter-frame delay, in milliseconds
MinDelay == 16
\* `null` of a ref<number | null>
NULL == -1
\* the speed multipliers, in hundredths
speeds == <<10, 25, 50, 100, 200>>

VARIABLES
    recording,             \* ref(true)
    playing,               \* ref(false)
    paused,                \* ref(false)
    playbackSpeed,         \* ref(0.25), in hundredths
    abPointA,              \* ref<number | null>(null)
    abPointB,              \* ref<number | null>(null)
    abPointMode,           \* ref(false)
    arrays,                \* the heap: the contents of the array objects
    playbackFramesRef,     \* the array object playbackFrames.value refers to
    currentPlaybackIndex,  \* ref(0)
    playbackTimeoutId,     \* ref<number | null>(null)
    progress,              \* ref<number>(-1), a fraction <<num, den>>
    dragging,              \* ref(false)
    timers,                \* ids of the setTimeout timers that are pending
    pushed,                \* history: every frame pushed so far, in order
    frameRead,             \* history: index the last step read a frame at, or NULL
    delay,                 \* history: delay of the timer the last step armed, or NULL
    lastOp                 \* history: the handler of the last step

vars == <<recording, playing, paused, playbackSpeed, abPointA, abPointB,
          abPointMode, arrays, playbackFramesRef, currentPlaybackIndex,
          playbackTimeoutId, progress, dragging, timers, pushed, frameRead,
          delay, lastOp>>

\* ------------------------------------------------------------ JS arithmetic
RECURSIVE GCD(_, _)
GCD(m, n) == IF n = 0 THEN m ELSE GCD(n, m % n)

NaN == <<0, 0>>

\* n / d of two non-negative numbers, as a fraction in lowest terms;
\* 0 / 0 is NaN and n / 0 is Infinity
Divide(n, d) ==
    IF d = 0 THEN (IF n = 0 THEN NaN ELSE <<1, 0>>)
    ELSE <<n \div GCD(n, d), d \div GCD(n, d)>>

Max(x, y) == IF x >= y THEN x ELSE y

\* !v of a ref<number | null>: null and 0 are both falsy
Falsy(v) == v = NULL \/ v = 0

\* Array.prototype.indexOf, 0-based, -1 when absent
IndexOf(seq, v) ==
    IF \E i \in 1..Len(seq) : seq[i] = v
    THEN (CHOOSE i \in 1..Len(seq) : seq[i] = v /\ \A j \in 1..(i-1) : seq[j] # v) - 1
    ELSE -1

\* ---------------------------------------------------------------- the state
Cur == [recording |-> recording, playing |-> playing, paused |-> paused,
        playbackSpeed |-> playbackSpeed, abPointA |-> abPointA,
        abPointB |-> abPointB, abPointMode |-> abPointMode, arrays |-> arrays,
        playbackFramesRef |-> playbackFramesRef,
        currentPlaybackIndex |-> currentPlaybackIndex,
        playbackTimeoutId |-> playbackTimeoutId, progress |-> progress,
        dragging |-> dragging, timers |-> timers, pushed |-> pushed,
        frameRead |-> NULL, delay |-> NULL, lastOp |-> lastOp]

\* frameBuffer.value and playbackFrames.value of a state
FrameBufferOf(s) == s.arrays["fb"]
PlaybackFramesOf(s) == s.arrays[s.playbackFramesRef]

frameBuffer == arrays["fb"]
playbackFrames == arrays[playbackFramesRef]

Init ==
    /\ recording = TRUE
    /\ playing = FALSE
    /\ paused = FALSE
    /\ playbackSpeed = 25
    /\ abPointA = NULL
    /\ abPointB = NULL
    /\ abPointMode = FALSE
    /\ arrays = [fb |-> <<>>, pf |-> <<>>]
    /\ playbackFramesRef = "pf"
    /\ currentPlaybackIndex = 0
    /\ playbackTimeoutId = NULL
    /\ progress = <<-1, 1>>
    /\ dragging = FALSE
    /\ timers = {}
    /\ pushed = <<>>
    /\ frameRead = NULL
    /\ delay = NULL
    /\ lastOp = "init"

\* ------------------------------------------------------------------ timers
\* setTimeout returns an id that no pending timer has.  (A browser never
\* reuses an id; the only handle that could still hold the reused one is
\* playbackTimeoutId, which line 601 overwrites with the new id.)
NewTimerId(s) ==
    CHOOSE i \in 1..(MaxTimers + 1) :
        i \notin s.timers /\ \A j \in 1..(i-1) : j \in s.timers

\* if (playbackTimeoutId.value) clearTimeout(playbackTimeoutId.value)
ClearPlaybackTimeout(s) ==
    IF s.playbackTimeoutId # NULL
    THEN [s EXCEPT !.timers = @ \ {s.playbackTimeoutId}]
    ELSE s

DelayNoFloor(speed) == (1000 * 1000 * 100) \div (FRAME_RATE * speed)

\* Math.max(16, 1000 / (FRAME_RATE * playbackSpeed)), in microseconds
Delay(speed) == Max(MinDelay * 1000, (1000 * 1000 * 100) \div (FRAME_RATE * speed))

\* ----------------------------------------------------------- playNextFrame
\* lines 579-589: the index the tick reads the frame at
WrapIndex(s) ==
    IF s.abPointMode /\ s.abPointA # NULL /\ s.abPointB # NULL
    THEN LET i1 == IF s.currentPlaybackIndex >= s.abPointB
                   THEN s.abPointA ELSE s.currentPlaybackIndex
         IN  IF i1 < s.abPointA THEN s.abPointA ELSE i1
    ELSE IF s.currentPlaybackIndex >= Len(PlaybackFramesOf(s))
         THEN 0 ELSE s.currentPlaybackIndex

\* playbackFrames.value[i] is undefined outside the array and putImageData
\* throws a TypeError for it, which ends the handler that called the tick
InRange(s, i) == 0 <= i /\ i < Len(PlaybackFramesOf(s))

playNextFrame(s) ==
    IF ~s.playing \/ s.paused THEN s
    ELSE LET i == WrapIndex(s)
             s1 == [s EXCEPT !.currentPlaybackIndex = i,
                             !.progress = Divide(i, Len(PlaybackFramesOf(s))),
                             !.frameRead = i]
         IN  IF ~InRange(s1, i) THEN s1
             ELSE LET id == NewTimerId(s1)
                  IN  [s1 EXCEPT !.currentPlaybackIndex = i + 1,
                                 !.delay = Delay(s.playbackSpeed),
                                 !.timers = @ \cup {id},
                                 !.playbackTimeoutId = id]

\* ----------------------------------------------------------- startPlayback
\* [...frameBuffer.value] allocates a new array object; the array that
\* playbackFrames.value referred to before becomes garbage, so its slot of
\* the heap is reused for the new one
SpreadAlias(s) == "fb"

Spread(s) == "pf"

startPlayback(s) ==
    IF Len(FrameBufferOf(s)) = 0 THEN s
    ELSE LET ref == Spread(s)
         IN  playNextFrame([s EXCEPT !.arrays[ref] = FrameBufferOf(s),
                                     !.playbackFramesRef = ref,
                                     !.currentPlaybackIndex = 0])

\* -------------------------------------------------------------- toggleMode
toggleMode(s) ==
    LET s1 == [s EXCEPT !.recording = ~s.recording,
                        !.playing = s.recording,
                        !.paused = FALSE]
        s2 == IF s1.recording THEN [s1 EXCEPT !.progress = <<-1, 1>>] ELSE s1
    IN  IF s2.playing THEN startPlayback(s2)
        ELSE IF s2.playbackTimeoutId # NULL
             THEN [ClearPlaybackTimeout(s2) EXCEPT !.playbackTimeoutId = NULL]
             ELSE s2

\* ------------------------------------------------------------ captureFrame
\* lines 504-509: push, then shift when the buffer is over its capacity
PushShiftEarly(buf, frame) ==
    LET b == Append(buf, frame)
    IN  IF Len(b) >= bufferSize THEN Tail(b) ELSE b

Push(buf, frame) ==
    LET b == Append(buf, frame)
    IN  IF Len(b) > bufferSize THEN Tail(b) ELSE b

captureFrameUnguarded(s, ready) ==
    IF ready
    THEN LET frame == Len(s.pushed) + 1
         IN  [s EXCEPT !.arrays["fb"] = Push(@, frame),
                       !.pushed = Append(@, frame)]
    ELSE s

\* `ready`: the video has a size and getImageData returned a frame
captureFrame(s, ready) ==
    IF s.recording /\ ~s.playing /\ ready
    THEN LET frame == Len(s.pushed) + 1
         IN  [s EXCEPT !.arrays["fb"] = Push(@, frame),
                       !.pushed = Append(@, frame)]
    ELSE s

\* ---------------------------------------------------------- toggleABPoints
toggleABPoints(s) ==
    IF Falsy(s.abPointA)
    THEN [s EXCEPT !.abPointA = s.currentPlaybackIndex]
    ELSE IF Falsy(s.abPointB)
    THEN [s EXCEPT !.abPointB = IF s.abPointA > s.currentPlaybackIndex
                                THEN Len(PlaybackFramesOf(s)) - 1
                                ELSE s.currentPlaybackIndex,
                   !.abPointMode = TRUE]
    ELSE [s EXCEPT !.abPointA = NULL, !.abPointB = NULL, !.abPointMode = FALSE]

\* ------------------------------------------------------------- togglePause
togglePause(s) ==
    LET s1 == [s EXCEPT !.paused = ~s.paused]
    IN  IF ~s1.paused /\ s1.playing THEN playNextFrame(s1) ELSE s1

\* ------------------------------------------------------- speed (427-433, 630-638)
adjustSpeed(s, speedFactor) ==
    LET s1 == [s EXCEPT !.playbackSpeed = speedFactor]
    IN  IF s1.playing /\ ~s1.paused
        THEN playNextFrame(ClearPlaybackTimeout(s1))
        ELSE s1

cycleSpeedNoWrap(s) ==
    LET currentIndex == IndexOf(speeds, s.playbackSpeed)
        nextIndex == IF currentIndex + 1 < Len(speeds)
                     THEN currentIndex + 1 ELSE currentIndex
    IN  adjustSpeed([s EXCEPT !.playbackSpeed = speeds[nextIndex + 1]],
                    speeds[nextIndex + 1])

cycleSpeed(s) ==
    LET currentIndex == IndexOf(speeds, s.playbackSpeed)
        nextIndex == (currentIndex + 1) % Len(speeds)
    IN  adjustSpeed([s EXCEPT !.playbackSpeed = speeds[nextIndex + 1]],
                    speeds[nextIndex + 1])

\* -------------------------------------------------------------------- seek
\* the pointer is at k / SeekDen of the window width:
\* Math.floor(clickPosition * playbackFrames.value.length)
TargetIndex(s, k) == (k * Len(PlaybackFramesOf(s))) \div SeekDen

\* lines 618-627 and, the same statements, lines 409-418
SeekTo(s, k) ==
    LET s1 == [s EXCEPT !.currentPlaybackIndex = TargetIndex(s, k),
                        !.progress = Divide(TargetIndex(s, k),
                                            Len(PlaybackFramesOf(s)))]
    IN  IF s1.playing /\ ~s1.paused
        THEN playNextFrame(ClearPlaybackTimeout(s1))
        ELSE s1

handleProgressClick(s, k) == IF ~s.playing THEN s ELSE SeekTo(s, k)

handleDrag(s, k) == IF s.dragging THEN handleProgressClick(s, k) ELSE s

handleTouchMove(s, k) == IF s.dragging THEN SeekTo(s, k) ELSE s

startDrag(s) == [s EXCEPT !.dragging = TRUE]

stopDrag(s) == [s EXCEPT !.dragging = FALSE]

\* ----------------------------------------------------------------- actions
\* The program compares timer ids only for equality with playbackTimeoutId,
\* so a state is kept up to a renaming of the ids: the pending timer that
\* playbackTimeoutId names is timer 1 and the other pending timers follow;
\* a handle whose timer is gone (fired or cleared) names no pending timer.
RenameTimers(s) ==
    LET n == Cardinality(s.timers)
    IN  [s EXCEPT !.timers = 1..n,
                  !.playbackTimeoutId =
                      IF s.playbackTimeoutId = NULL THEN NULL
                      ELSE IF s.playbackTimeoutId \in s.timers THEN 1
                      ELSE n + 1]

\* the state after a handler; a step that would leave more than MaxTimers
\* timers pending, or push more than MaxFrames frames, is outside the model
Apply(r, op) ==
  \E s \in {RenameTimers(r)} :
    /\ Cardinality(s.timers) <= MaxTimers
    /\ Len(s.pushed) <= MaxFrames
    /\ recording' = s.recording
    /\ playing' = s.playing
    /\ paused' = s.paused
    /\ playbackSpeed' = s.playbackSpeed
    /\ abPointA' = s.abPointA
    /\ abPointB' = s.abPointB
    /\ abPointMode' = s.abPointMode
    /\ arrays' = s.arrays
    /\ playbackFramesRef' = s.playbackFramesRef
    /\ currentPlaybackIndex' = s.currentPlaybackIndex
    /\ playbackTimeoutId' = s.playbackTimeoutId
    /\ progress' = s.progress
    /\ dragging' = s.dragging
    /\ timers' = s.timers
    /\ pushed' = s.pushed
    /\ frameRead' = s.frameRead
    /\ delay' = s.delay
    /\ lastOp' = op

\* the three buttons of lines 336-344 are disabled while
\* recording || frameBuffer.length === 0
ButtonEnabled == ~(recording \/ Len(frameBuffer) = 0)

\* requestAnimationFrame callback (lines 474-517)
CaptureFrame == \E ready \in BOOLEAN : Apply(captureFrame(Cur, ready), "captureFrame")

\* @click of the mode button (line 333)
ToggleMode == Apply(toggleMode(Cur), "toggleMode")

TogglePause == ButtonEnabled /\ Apply(togglePause(Cur), "togglePause")

CycleSpeed == ButtonEnabled /\ Apply(cycleSpeed(Cur), "cycleSpeed")

ToggleABPoints == ButtonEnabled /\ Apply(toggleABPoints(Cur), "toggleABPoints")

\* @click of the progress bar (line 322); the handler returns at once
\* unless playing (line 615)
ProgressClick ==
    /\ playing
    /\ \E k \in 0..SeekDen : Apply(handleProgressClick(Cur, k), "handleProgressClick")

\* @mousemove; the handler does nothing unless dragging (line 400)
Drag ==
    /\ dragging
    /\ \E k \in 0..SeekDen : Apply(handleDrag(Cur, k), "handleDrag")

\* @touchmove; the handler does nothing unless dragging (line 406)
TouchMove ==
    /\ dragging
    /\ \E k \in 0..SeekDen : Apply(handleTouchMove(Cur, k), "handleTouchMove")

\* @mousedown, @touchstart
StartDrag == Apply(startDrag(Cur), "startDrag")

\* @mouseup, @mouseleave, @touchend
StopDrag == Apply(stopDrag(Cur), "stopDrag")

\* a pending timer fires: the timer is gone and playNextFrame runs
TimerFire ==
    \E id \in timers :
        Apply(playNextFrame([Cur EXCEPT !.timers = @ \ {id}]), "timer")

Next ==
    \/ CaptureFrame
    \/ ToggleMode
    \/ TogglePause
    \/ CycleSpeed
    \/ ToggleABPoints
    \/ ProgressClick
    \/ Drag
    \/ TouchMove
    \/ StartDrag
    \/ StopDrag
    \/ TimerFire

Spec == Init /\ [][Next]_vars

\* ------------------------------------------------------------- properties
Min(x, y) == IF x <= y THEN x ELSE y

\* the condition of line 579
LoopActive == abPointMode /\ abPointA # NULL /\ abPointB # NULL

\* C1: after N pushes the frame buffer has min(N, bufferSize) frames, never
\* more than bufferSize, and they are the last min(N, bufferSize) frames
\* pushed, oldest first.
C1_BoundedBuffer ==
    LET n == Len(pushed)
        m == Min(n, bufferSize)
    IN  /\ Len(frameBuffer) = m
        /\ Len(frameBuffer) <= bufferSize
        /\ frameBuffer = SubSeq(pushed, n - m + 1, n)

C1_Witness ==
    /\ lastOp = "captureFrame"
    /\ Len(pushed) > bufferSize
    /\ Len(frameBuffer) = bufferSize
    /\ frameBuffer[1] = Len(pushed) - bufferSize + 1

\* C2: ToggleMode in Recording mode with an empty frame buffer is refused:
\* the mode is still Recording afterwards, no frame is read, no timer is
\* armed and the frame buffer is unchanged.
C2_EmptyBufferRefused ==
    [][(recording /\ ~playing /\ Len(frameBuffer) = 0 /\ ToggleMode)
         => /\ recording' /\ ~playing'
            /\ frameRead' = NULL
            /\ timers' = timers
            /\ frameBuffer' = frameBuffer]_vars

\* C3: every tick that reads a frame reads it at an index i with
\* 0 <= i < len(playbackFrames).
C3_NoOutOfRangeRead ==
    frameRead # NULL => (0 <= frameRead /\ frameRead < Len(playbackFrames))

\* C4: with a loop {a, b}, a <= b, active and playback running unpaused, a
\* timer tick delivers an index of [a, b], and the index after a delivered
\* p of [a, b] is p + 1, or a when p = b: the cycle a, a+1, ..., b, a, ...
C4_LoopCycle ==
    [][(/\ LoopActive /\ abPointA <= abPointB
        /\ abPointB < Len(playbackFrames)
        /\ playing /\ ~paused /\ TimerFire)
         => LET p == currentPlaybackIndex - 1
            IN  /\ frameRead' \in abPointA..abPointB
                /\ p \in abPointA..abPointB
                     => frameRead' = IF p = abPointB THEN abPointA ELSE p + 1]_vars

\* C5: whenever the loop is active, 0 <= a <= b <= len(playbackFrames) - 1.
C5_LoopBoundsValid ==
    LoopActive => /\ 0 <= abPointA
                  /\ abPointA <= abPointB
                  /\ abPointB <= Len(playbackFrames) - 1

\* C6: ToggleLoopPoint is the cycle none -> A set -> A and B set -> none at
\* every cursor index: the 1st call records a = index and leaves the loop
\* inactive, the 2nd sets b and activates the loop without changing a, the
\* 3rd clears a and b and deactivates the loop.
C6_ThreeStepCycle ==
    [][ToggleABPoints =>
         /\ (abPointA = NULL /\ abPointB = NULL)
              => /\ abPointA' = currentPlaybackIndex
                 /\ abPointB' = NULL
                 /\ ~abPointMode'
         /\ (abPointA # NULL /\ abPointB = NULL)
              => /\ abPointA' = abPointA
                 /\ abPointB' # NULL
                 /\ abPointMode'
         /\ (abPointA # NULL /\ abPointB # NULL)
              => /\ abPointA' = NULL
                 /\ abPointB' = NULL
                 /\ ~abPointMode']_vars

\* C7: in Recording mode TogglePause, the three seek paths (click, mouse
\* drag, touch drag) and ToggleLoopPoint change neither the paused flag, the
\* cursor index, the progress, the loop points nor the pending timers.
C7_NoOpWhileRecording ==
    [][(/\ recording /\ ~playing
        /\ (TogglePause \/ ProgressClick \/ Drag \/ TouchMove \/ ToggleABPoints))
         => UNCHANGED <<paused, currentPlaybackIndex, progress, abPointA,
                        abPointB, abPointMode, timers>>]_vars

\* C8: the playback sequence changes only in the step that enters Replaying,
\* where it becomes the contents of the frame buffer: pushes and evictions
\* after the snapshot do not alter it and its length is fixed for a session.
C8_SnapshotIndependent ==
    [][\/ playbackFrames' = playbackFrames
       \/ (~playing /\ playing' /\ playbackFrames' = frameBuffer)]_vars

C8_Witness ==
    /\ lastOp = "captureFrame"
    /\ ~playing
    /\ Len(playbackFrames) > 0
    /\ Len(pushed) > playbackFrames[Len(playbackFrames)]
    /\ frameBuffer # playbackFrames

\* C9: no step taken in Replaying mode, and no ToggleMode step into or out of
\* it, changes the frame buffer: a capture callback then pushes nothing.
C9_NoPushWhileReplaying ==
    [][(playing \/ playing')
         => (frameBuffer' = frameBuffer /\ pushed' = pushed)]_vars

C9_Witness ==
    /\ lastOp = "captureFrame"
    /\ playing /\ ~recording
    /\ Len(frameBuffer) > 0
    /\ Len(pushed) < MaxFrames

\* C10: every ToggleMode clears the A/B loop: entering Replaying with a
\* non-empty buffer leaves no loop point set, the loop inactive and paused
\* false, and the first frame delivered is playbackFrames[0]; entering
\* Recording leaves no loop point set.
C10_ToggleModeClearsLoop ==
    [][ToggleMode =>
         /\ (recording /\ Len(frameBuffer) > 0)
              => /\ frameRead' = 0
                 /\ abPointA' = NULL /\ abPointB' = NULL /\ ~abPointMode'
                 /\ ~paused'
         /\ playing
              => (abPointA' = NULL /\ abPointB' = NULL /\ ~abPointMode')]_vars

\* a seek to k / SeekDen of the width through one of the three paths:
\* click, mouse drag, touch drag
SeekStep(k) ==
    \/ (playing /\ Apply(handleProgressClick(Cur, k), "handleProgressClick"))
    \/ (dragging /\ Apply(handleDrag(Cur, k), "handleDrag"))
    \/ (dragging /\ Apply(handleTouchMove(Cur, k), "handleTouchMove"))

\* C11: a seek to the fraction f of a non-empty playback sequence while
\* replay is paused sets the cursor index to floor(f * len) clamped into
\* [0, len - 1] and changes nothing besides the index and the progress.
C11_SeekClamped ==
    [][\A k \in 0..SeekDen :
         (playing /\ paused /\ Len(playbackFrames) > 0 /\ SeekStep(k))
           => /\ currentPlaybackIndex' =
                   Min((k * Len(playbackFrames)) \div SeekDen,
                       Len(playbackFrames) - 1)
              /\ currentPlaybackIndex' \in 0..(Len(playbackFrames) - 1)
              /\ UNCHANGED <<recording, playing, paused, playbackSpeed,
                             abPointA, abPointB, abPointMode, arrays,
                             playbackFramesRef, playbackTimeoutId, dragging,
                             timers, pushed>>
              /\ frameRead' = NULL]_vars

\* C12 as stated: with no loop set the cursor index is within [0, len) after
\* every tick, a tick from index len - 1 leaving index 0.
C12_IndexInRangeAfterTick ==
    [][(/\ TimerFire /\ playing /\ ~paused /\ ~LoopActive
        /\ Len(playbackFrames) > 0)
         => currentPlaybackIndex' \in 0..(Len(playbackFrames) - 1)]_vars

\* what the tick does instead (the part of C12 that the code keeps): with no
\* loop set, a timer tick of a non-empty playback sequence reads the frame at
\* the cursor index taken modulo len and leaves the cursor one past the index
\* it read (len after the last frame, wrapped to 0 by the next tick), so the
\* delivered indices run 0, 1, ..., len - 1, 0, 1, ...
DefaultWrapOnRead ==
    [][(/\ lastOp' = "timer" /\ playing /\ ~paused /\ ~LoopActive
        /\ Len(playbackFrames) > 0)
         => /\ currentPlaybackIndex <= Len(playbackFrames)
            /\ frameRead' = currentPlaybackIndex % Len(playbackFrames)
            /\ frameRead' \in 0..(Len(playbackFrames) - 1)
            /\ currentPlaybackIndex' = frameRead' + 1]_vars

DefaultWrapReached ==
    /\ lastOp = "timer"
    /\ playing /\ ~paused /\ ~LoopActive
    /\ Len(playbackFrames) >= 2
    /\ frameRead = 0
    /\ currentPlaybackIndex = 1

\* C13: the 2nd ToggleLoopPoint call (A recorded, B not yet) sets
\* b = len - 1 when the cursor index is strictly less than a, and b = index
\* otherwise.
C13_LoopSnapRule ==
    [][(ToggleABPoints /\ abPointA # NULL /\ abPointB = NULL)
         => abPointB' = IF currentPlaybackIndex < abPointA
                        THEN Len(playbackFrames) - 1
                        ELSE currentPlaybackIndex]_vars

\* the elements of the speed set
SpeedSet == {speeds[i] : i \in 1..Len(speeds)}

\* over the speed set a smaller multiplier never gets a smaller delay, and
\* no delay is below 16 ms
DelayMonotoneOnSpeeds ==
    /\ \A m1, m2 \in SpeedSet : m1 < m2 => Delay(m1) >= Delay(m2)
    /\ \A m \in SpeedSet : Delay(m) >= 16000

\* C14: the delay a tick computes is max(16 ms, (1000 ms / FRAME_RATE) /
\* multiplier): it is never below 16 ms, it is the quotient (to the
\* microsecond) whenever the quotient is at least 16 ms, and over the speed
\* set a smaller multiplier never gets a smaller delay.
C14_DelayMonotone ==
    /\ delay # NULL =>
         LET q == FRAME_RATE * playbackSpeed
         IN  /\ delay >= 16000
             /\ \/ (delay = 16000 /\ 16000 * q >= 100000000)
                \/ (delay * q <= 100000000 /\ 100000000 < (delay + 1) * q)
    /\ DelayMonotoneOnSpeeds

C14_Witness ==
    /\ lastOp = "timer"
    /\ playbackSpeed = 200
    /\ delay = 16000

\* the successor of a multiplier in the cycle 0.1, 0.25, 0.5, 1, 2, 0.1
NextSpeed(v) ==
    CASE v = 10 -> 25 [] v = 25 -> 50 [] v = 50 -> 100 [] v = 100 -> 200
      [] v = 200 -> 10

\* five steps of the cycle lead back to the start
FiveStepsReturn ==
    \A v \in {10, 25, 50, 100, 200} :
        NextSpeed(NextSpeed(NextSpeed(NextSpeed(NextSpeed(v))))) = v

\* C15: the multiplier is always one of 0.1, 0.25, 0.5, 1, 2; CycleSpeed
\* (the one step that leaves lastOp = "cycleSpeed") moves it to the next one, from 2 back to 0.1, so that five CycleSpeed
\* commands return it to the value it had.
C15_CycleSpeed ==
    [][/\ playbackSpeed' \in {10, 25, 50, 100, 200}
       /\ lastOp' = "cycleSpeed" => playbackSpeed' = NextSpeed(playbackSpeed)
       /\ FiveStepsReturn]_vars

C15_Witness ==
    /\ lastOp = "cycleSpeed"
    /\ playbackSpeed = 10

\* C16: at most one replay timer is pending at any time.
C16_SingleTimer == Cardinality(timers) <= 1

\* C17: in Recording mode no replay timer is pending (ToggleMode out of
\* Replaying has cancelled every one of them), so that no timer of an
\* earlier session can fire in a later one.
C17_NoTimerWhileRecording == (recording /\ ~playing) => timers = {}

\* C18: a timer that fires while replay is paused reads no frame, leaves the
\* cursor where it is and arms no timer; TogglePause from paused clears the
\* flag and runs one tick, which delivers a frame of the playback sequence
\* at the cursor position and arms the next timer.
C18_PauseResume ==
    [][/\ (playing /\ paused /\ TimerFire)
            => /\ frameRead' = NULL
               /\ delay' = NULL
               /\ currentPlaybackIndex' = currentPlaybackIndex
               /\ Cardinality(timers') = Cardinality(timers) - 1
       /\ (playing /\ paused /\ TogglePause)
            => /\ ~paused'
               /\ frameRead' \in 0..(Len(playbackFrames) - 1)
               /\ currentPlaybackIndex' = frameRead' + 1
               /\ delay' # NULL
               /\ Cardinality(timers') = Cardinality(timers) + 1]_vars

\* C19: CycleSpeed while replay runs unpaused cancels the pending timer and
\* runs one tick at once, whose timer is armed with the delay of the new
\* multiplier; CycleSpeed while paused changes the multiplier only: the
\* cursor index, the loop points, the paused flag and the pending timers
\* stay as they are.
C19_CycleSpeedEffect ==
    [][/\ (playing /\ ~paused /\ CycleSpeed)
            => /\ frameRead' # NULL
               /\ delay' = Delay(NextSpeed(playbackSpeed))
               /\ Cardinality(timers') =
                      Cardinality(timers \ {playbackTimeoutId}) + 1
       /\ ((paused \/ ~playing) /\ CycleSpeed)
            => /\ playbackSpeed' = NextSpeed(playbackSpeed)
               /\ UNCHANGED <<currentPlaybackIndex, abPointA, abPointB,
                              abPointMode, paused, timers>>]_vars

\* C20: whenever the mode is Replaying, the playback sequence is non-empty
\* and replay is not paused, a replay timer is pending.
C20_NeverStalls ==
    (playing /\ ~paused /\ Len(playbackFrames) > 0) => timers # {}

====
